---- MODULE Spec2Model ----
(***************************************************************************)
(* Model of public/app.js, the dashboard's client logic: the status        *)
(* poller (fetchHome + setInterval), the scan renderer (fetchStocks + the  *)
(* filter control), the detail modal (showStockDetail + the two dismissal  *)
(* handlers) and the refresh button.                                       *)
(*                                                                         *)
(* The page runs on one event loop.  An async function runs from its call  *)
(* to its first await in the caller's task, and after each await in a      *)
(* later task of its own; other tasks (timer, clicks, other settlements)   *)
(* run in between.  fetchHome, fetchStocks and showStockDetail await twice, *)
(* fetch(...) and then response.json(), so each is three actions: the      *)
(* call, which issues the request; the settlement of the fetch, which      *)
(* either rejects and runs the catch block or resolves and suspends the    *)
(* call again at response.json(); and the response, the settlement of      *)
(* response.json(), which runs the rest of the function, catch block       *)
(* included.  The refresh handler awaits its fetch only.                   *)
(*                                                                         *)
(* lucide.createIcons() (line 135) belongs to a library the page loads     *)
(* from outside this repository.  Whether the global is defined when the   *)
(* line runs, and whether the call returns, is not decided by this code:   *)
(* each call either returns, leaving the modelled elements alone, or       *)
(* throws (a ReferenceError when the library is not loaded), which the     *)
(* catch block of showStockDetail handles.                                 *)
(*                                                                         *)
(* DOM text is a string.  JSON objects are functions from the keys that    *)
(* are present to their values; an absent key is a key outside DOMAIN.     *)
(* JSON numbers of the detail fields are Num(n) with n an integer number   *)
(* of the field's unit (relative_volume and debt_equity: hundredths, pe:   *)
(* tenths, roe: thousandths, market_cap: 10^8, scores: units), so that     *)
(* toFixed is computed digit by digit; Str(s) is a JSON string in a place  *)
(* where a number is expected.                                             *)
(***************************************************************************)
EXTENDS Integers, Sequences, FiniteSets, TLC

VARIABLES
    totalIndexed,       \* #totalIndexed.textContent
    workerState,        \* #workerState.textContent
    workerScanning,     \* 'scanning' in #workerState.classList
    scanProgressText,   \* #scanProgressText.textContent
    statusInFlight,     \* fetchHome calls suspended at await fetch (line 7)
    statusParsing,      \* fetchHome calls suspended at await response.json() (line 8)
    statusIssued,       \* fetchHome calls so far
    ticks,              \* timer ticks so far
    updateInFlight,     \* refresh clicks suspended at the POST's await
    refreshClicks,      \* clicks on #updateDbBtn so far
    alerts,             \* alert() calls so far
    stocksGrid,         \* children of #stocksGrid, in order
    opportunityCount,   \* #opportunityCount.textContent
    scoreFilter,        \* #scoreFilter.value
    scanInFlight,       \* fetchStocks calls suspended at await fetch (line 36), in call order
    scanParsing,        \* fetchStocks calls suspended at await response.json() (line 37)
    scanIssued,         \* fetchStocks calls so far
    modalDisplay,       \* #stockModal.style.display
    modalBody,          \* #modalBody.innerHTML
    analysisInFlight,   \* showStockDetail calls suspended at await fetch (line 93)
    analysisParsing,    \* showStockDetail calls suspended at await response.json() (line 94)
    analysisIssued,     \* showStockDetail calls so far
    ev                  \* the task the event loop ran last

statusVars == <<totalIndexed, workerState, workerScanning, scanProgressText>>
pollVars == <<statusInFlight, statusParsing, statusIssued, ticks, updateInFlight, refreshClicks, alerts>>
scanRegion == <<stocksGrid, opportunityCount>>
scanVars == <<scoreFilter, scanInFlight, scanParsing, scanIssued>>
modalRegion == <<modalDisplay, modalBody>>
modalVars == <<analysisInFlight, analysisParsing, analysisIssued>>
vars == <<statusVars, pollVars, scanRegion, scanVars, modalRegion, modalVars, ev>>

----------------------------------------------------------------------------
(* Bounds of the model. *)

MaxTicks == 2
MaxRefresh == 1
MaxFilterChanges == 2
MaxOpens == 2
MaxPageEvents == 1

----------------------------------------------------------------------------
(* Program constants. *)

API_BASE == "/api"
ScanLimit == 50
DefaultMinScore == 0
OpportunityScore == 75
SuccessFinScore == 70

----------------------------------------------------------------------------
(* JavaScript values. *)

Has(o, k) == k \in DOMAIN o

Num(n) == [num |-> n]
Str(s) == [str |-> s]
IsNum(v) == "num" \in DOMAIN v

(* What an awaited fetch settles with: a rejection (network failure) or a  *)
(* response, whatever its HTTP status.                                     *)
NetworkError == [kind |-> "network"]
Resolved == [kind |-> "response"]
FetchOutcomes == {NetworkError, Resolved}

(* What response.json() settles with: a rejection (the body is not JSON)   *)
(* or the parsed body.                                                     *)
InvalidJson == [kind |-> "badjson"]
Json(d) == [kind |-> "json", data |-> d]

Pow10(d) == IF d = 0 THEN 1 ELSE IF d = 1 THEN 10 ELSE 100

(* Number.prototype.toFixed(d) of the non-negative number u / 10^d. *)
ToFixed(u, d) ==
    LET whole == u \div Pow10(d)
        frac == u % Pow10(d)
    IN  IF d = 0 THEN ToString(whole)
        ELSE ToString(whole) \o "." \o
             (IF d = 2 /\ frac < 10 THEN "0" ELSE "") \o ToString(frac)

NaNText == "NaN"

NoEvent == [op |-> "load", req |-> [id |-> 0], resp |-> [kind |-> "none"], threw |-> FALSE]
Event(op, req, resp, threw) == [op |-> op, req |-> req, resp |-> resp, threw |-> threw]

----------------------------------------------------------------------------
(* Status poller: fetchHome. *)

(* A string the code splits is a sequence of one-character strings. *)
RECURSIVE Join(_)
Join(cs) == IF cs = <<>> THEN "" ELSE Head(cs) \o Join(Tail(cs))

(* s.split(' ')[0]: the characters before the first space. *)
RECURSIVE SplitFirst(_)
SplitFirst(cs) ==
    IF cs = <<>> \/ Head(cs) = " " THEN <<>>
    ELSE <<Head(cs)>> \o SplitFirst(Tail(cs))

(* The last_run strings of the model that contain 'GMT'. *)
GmtRun == "Mon, 05 Jan 2026 10:00:00 GMT"
LocalRun == "2026-01-05 10:00:00"
Includes(s, sub) == sub = "GMT" /\ s = GmtRun

StatusDom(ti, ws, sc, pt) ==
    [totalIndexed |-> ti, workerState |-> ws, scanning |-> sc, scanProgressText |-> pt]

Completed(dom) == [dom |-> dom, threw |-> FALSE]
Thrown(dom) == [dom |-> dom, threw |-> TRUE]

(* The bodies the status endpoint answers with. *)
StatusScanning ==
    [db_status |-> <<"1", "2", " ", "o", "k">>,
     worker |-> [is_running |-> TRUE, last_run |-> LocalRun]]
StatusIdleGmt ==
    [db_status |-> <<"7", " ", "o", "k">>,
     worker |-> [is_running |-> FALSE, last_run |-> GmtRun]]
StatusIdleLocal ==
    [db_status |-> <<"1", "2", " ", "o", "k">>,
     worker |-> [is_running |-> FALSE, last_run |-> LocalRun]]
StatusNoWorker == [db_status |-> <<"3", "0">>]
StatusNoLastRun == [db_status |-> <<"4", "0", " ", "o", "k">>, worker |-> [is_running |-> FALSE]]
StatusNoDb == [worker |-> [is_running |-> TRUE, last_run |-> LocalRun]]

StatusOutcomes ==
    {InvalidJson, Json(StatusScanning), Json(StatusIdleGmt),
     Json(StatusIdleLocal), Json(StatusNoWorker), Json(StatusNoLastRun),
     Json(StatusNoDb)}

(* fetchHome from a settlement to its end: a rejection (of fetch or of     *)
(* response.json()) goes to the catch block, a parsed body to the statements *)
(* of the try block in order, each writing its slot, and the catch block,  *)
(* which writes nothing.  A statement that throws leaves the writes of the *)
(* statements before it in place.                                          *)
(* Mutant: the catch block blanks the region. *)
fetchHomeCatchClears(dom) == Thrown(StatusDom("", "", FALSE, ""))

(* The catch block: console.error, and no write. *)
fetchHomeCatch(dom) == Thrown(dom)

(* Mutant: the idle branch leaves the marker as it is. *)
fetchHomeAddsMarkerOnly(dom, o) ==
    IF o.kind # "json" THEN fetchHomeCatch(dom)
    ELSE LET data == o.data IN
    IF ~Has(data, "db_status") THEN fetchHomeCatch(dom)
    ELSE LET d1 == [dom EXCEPT !.totalIndexed = Join(SplitFirst(data.db_status))] IN
    IF ~Has(data, "worker") THEN fetchHomeCatch(d1)
    ELSE LET worker == data.worker
             running == Has(worker, "is_running") /\ worker.is_running
             d2 == [d1 EXCEPT !.workerState = IF running THEN "SCANNING" ELSE "IDLE"]
         IN
    IF running
    THEN Completed([d2 EXCEPT !.scanProgressText = "Stock Analysis in Progress...",
                              !.scanning = TRUE])
    ELSE IF ~Has(worker, "last_run") THEN fetchHomeCatch(d2)
    ELSE LET lastRun == IF Includes(worker.last_run, "GMT")
                        THEN worker.last_run ELSE worker.last_run
         IN Completed([d2 EXCEPT !.scanProgressText = "Last run: " \o lastRun])

fetchHomeBody(dom, o) ==
    IF o.kind # "json" THEN fetchHomeCatch(dom)
    ELSE LET data == o.data IN
    IF ~Has(data, "db_status") THEN fetchHomeCatch(dom)
    ELSE LET d1 == [dom EXCEPT !.totalIndexed = Join(SplitFirst(data.db_status))] IN
    IF ~Has(data, "worker") THEN fetchHomeCatch(d1)
    ELSE LET worker == data.worker
             running == Has(worker, "is_running") /\ worker.is_running
             d2 == [d1 EXCEPT !.workerState = IF running THEN "SCANNING" ELSE "IDLE"]
         IN
    IF running
    THEN Completed([d2 EXCEPT !.scanProgressText = "Stock Analysis in Progress...",
                              !.scanning = TRUE])
    ELSE IF ~Has(worker, "last_run") THEN fetchHomeCatch(d2)
    ELSE LET lastRun == IF Includes(worker.last_run, "GMT")
                        THEN worker.last_run ELSE worker.last_run
         IN Completed([d2 EXCEPT !.scanProgressText = "Last run: " \o lastRun,
                                 !.scanning = FALSE])

(* A call of fetchHome: runs to the await of its fetch. *)
fetchHomeCall ==
    /\ statusIssued' = statusIssued + 1
    /\ statusInFlight' = statusInFlight + 1

(* Mutant: a tick is skipped while an earlier fetchHome is in flight. *)
timerTickSkipsWhenBusy ==
    /\ ticks < MaxTicks
    /\ statusInFlight + statusParsing = 0
    /\ ticks' = ticks + 1
    /\ fetchHomeCall
    /\ ev' = Event("tick", [id |-> ticks + 1], [kind |-> "none"], FALSE)
    /\ UNCHANGED <<statusVars, statusParsing, updateInFlight, refreshClicks, alerts>>
    /\ UNCHANGED <<scanRegion, scanVars, modalRegion, modalVars>>

(* setInterval(fetchHome, 10000): a tick calls fetchHome, whatever the     *)
(* earlier calls did.                                                      *)
timerTick ==
    /\ ticks < MaxTicks
    /\ ticks' = ticks + 1
    /\ fetchHomeCall
    /\ ev' = Event("tick", [id |-> ticks + 1], [kind |-> "none"], FALSE)
    /\ UNCHANGED <<statusVars, statusParsing, updateInFlight, refreshClicks, alerts>>
    /\ UNCHANGED <<scanRegion, scanVars, modalRegion, modalVars>>

(* The fetch of one suspended fetchHome settles (line 7): a rejection runs *)
(* the catch block; a response calls response.json() and suspends again.   *)
statusFetchSettles ==
    /\ statusInFlight > 0
    /\ statusInFlight' = statusInFlight - 1
    /\ \E o \in FetchOutcomes :
        LET r == fetchHomeBody(
                    StatusDom(totalIndexed, workerState, workerScanning, scanProgressText), o)
        IN  IF o = Resolved
            THEN /\ statusParsing' = statusParsing + 1
                 /\ ev' = Event("statusFetchSettles", [id |-> 0], o, FALSE)
                 /\ UNCHANGED statusVars
            ELSE /\ statusParsing' = statusParsing
                 /\ totalIndexed' = r.dom.totalIndexed
                 /\ workerState' = r.dom.workerState
                 /\ workerScanning' = r.dom.scanning
                 /\ scanProgressText' = r.dom.scanProgressText
                 /\ ev' = Event("statusFetchSettles", [id |-> 0], o, r.threw)
    /\ UNCHANGED <<statusIssued, ticks, updateInFlight, refreshClicks, alerts>>
    /\ UNCHANGED <<scanRegion, scanVars, modalRegion, modalVars>>

(* Mutant: a fetchHome that throws calls itself again. *)
statusResponseRetries ==
    /\ statusParsing > 0
    /\ \E o \in StatusOutcomes :
        LET r == fetchHomeBody(
                    StatusDom(totalIndexed, workerState, workerScanning, scanProgressText), o)
        IN  /\ totalIndexed' = r.dom.totalIndexed
            /\ workerState' = r.dom.workerState
            /\ workerScanning' = r.dom.scanning
            /\ scanProgressText' = r.dom.scanProgressText
            /\ ev' = Event("statusResponse", [id |-> 0], o, r.threw)
            /\ statusInFlight' = IF r.threw THEN statusInFlight + 1 ELSE statusInFlight
            /\ statusIssued' = IF r.threw THEN statusIssued + 1 ELSE statusIssued
    /\ statusParsing' = statusParsing - 1
    /\ UNCHANGED <<ticks, updateInFlight, refreshClicks, alerts>>
    /\ UNCHANGED <<scanRegion, scanVars, modalRegion, modalVars>>

(* response.json() of one suspended fetchHome settles (line 8) and the     *)
(* function runs to its end.                                               *)
statusResponse ==
    /\ statusParsing > 0
    /\ \E o \in StatusOutcomes :
        LET r == fetchHomeBody(
                    StatusDom(totalIndexed, workerState, workerScanning, scanProgressText), o)
        IN  /\ totalIndexed' = r.dom.totalIndexed
            /\ workerState' = r.dom.workerState
            /\ workerScanning' = r.dom.scanning
            /\ scanProgressText' = r.dom.scanProgressText
            /\ ev' = Event("statusResponse", [id |-> 0], o, r.threw)
    /\ statusParsing' = statusParsing - 1
    /\ UNCHANGED <<statusInFlight, statusIssued, ticks, updateInFlight, refreshClicks, alerts>>
    /\ UNCHANGED <<scanRegion, scanVars, modalRegion, modalVars>>

(* #updateDbBtn.onclick up to the await of the POST. *)
updateDbClick ==
    /\ refreshClicks < MaxRefresh
    /\ refreshClicks' = refreshClicks + 1
    /\ updateInFlight' = updateInFlight + 1
    /\ ev' = Event("updateDbClick", [id |-> refreshClicks + 1], [kind |-> "none"], FALSE)
    /\ UNCHANGED <<statusVars, statusInFlight, statusParsing, statusIssued, ticks, alerts>>
    /\ UNCHANGED <<scanRegion, scanVars, modalRegion, modalVars>>

(* What the POST settles with: fetch rejects on a network failure only and *)
(* resolves on every HTTP status.                                          *)
UpdateOutcomes == {[kind |-> "network"], [kind |-> "http2xx"], [kind |-> "http5xx"]}

(* The rest of #updateDbBtn.onclick: a rejected POST ends the handler (it  *)
(* has no catch); a resolved one alerts and calls fetchHome.               *)
updateDbResponse ==
    /\ updateInFlight > 0
    /\ updateInFlight' = updateInFlight - 1
    /\ \E o \in UpdateOutcomes :
        /\ ev' = Event("updateDbResponse", [id |-> 0], o, o.kind = "network")
        /\ IF o.kind = "network"
           THEN UNCHANGED <<alerts, statusInFlight, statusIssued>>
           ELSE alerts' = alerts + 1 /\ fetchHomeCall
    /\ UNCHANGED <<statusVars, statusParsing, ticks, refreshClicks>>
    /\ UNCHANGED <<scanRegion, scanVars, modalRegion, modalVars>>

----------------------------------------------------------------------------
(* Scan renderer: fetchStocks. *)

EmptyObject == [k \in {} |-> k]

(* o[k] || {} *)
SubObject(o, k) == IF Has(o, k) THEN o[k] ELSE EmptyObject

(* JavaScript truthiness of a JSON number or string. *)
Truthy(v) == IF IsNum(v) THEN v.num # 0 ELSE v.str # ""

(* The summaries and analyses the backend holds, one per symbol. *)
AaplDetails ==
    [technicals |-> [relative_volume |-> Num(150), trend |-> "Alcista"],
     institutional |-> [outlook |-> "Acumulacion institucional"],
     financials |-> [sector |-> "Technology", score |-> Num(85), pe |-> Num(285),
                     debt_equity |-> Num(150), roe |-> Num(150),
                     market_cap |-> Num(25), stability |-> "Alta"]]
MsftDetails ==
    [financials |-> [score |-> Num(40), debt_equity |-> Num(5), roe |-> Num(0),
                     market_cap |-> Num(310)]]
NvdaDetails ==
    [technicals |-> [relative_volume |-> Num(0)],
     institutional |-> EmptyObject,
     financials |-> [sector |-> "Semiconductors", pe |-> Num(600)]]
Aapl == [symbol |-> "AAPL", score |-> 80, details |-> AaplDetails]
Tsla == [symbol |-> "TSLA", score |-> 74]
Msft == [symbol |-> "MSFT", score |-> 75, details |-> MsftDetails]
Nvda == [symbol |-> "NVDA", score |-> 90, details |-> NvdaDetails]
(* A summary whose relative_volume is a JSON string. *)
Amzn == [symbol |-> "AMZN", score |-> 90,
         details |-> [technicals |-> [relative_volume |-> Str("2.1")]]]

(* A summary whose pe is a JSON string. *)
Meta == [symbol |-> "META", score |-> 60,
         details |-> [financials |-> [sector |-> "Technology", pe |-> Str("24.1")]]]

ScanOutcomes ==
    {InvalidJson,
     Json([detail |-> "Not Found"]),
     Json([results |-> <<>>]),
     Json([results |-> <<Aapl, Tsla, Msft, Nvda>>]),
     Json([results |-> <<Tsla, Aapl>>]),
     Json([results |-> <<Nvda, Meta>>]),
     Json([results |-> <<Aapl, Amzn, Tsla>>])}

FilterValues == {"0", "75", "darwinex"}

Url(path, limit, minScore) ==
    [path |-> path, query |-> [limit |-> limit, min_score |-> minScore]]

(* Mutant: the sentinel is not routed; the first url is kept. *)
fetchStocksUrlKeepsFirst(minScore) == Url(API_BASE \o "/scan", ToString(ScanLimit), minScore)

(* The url fetchStocks requests for its argument (a number is written in   *)
(* decimal by the template literal, so the argument is a string here).     *)
fetchStocksUrl(minScore) ==
    LET standard == Url(API_BASE \o "/scan", ToString(ScanLimit), minScore)
    IN  IF minScore = "darwinex"
        THEN Url(API_BASE \o "/scan-darwinex", ToString(ScanLimit), "0")
        ELSE standard

(* Mutant: the threshold is exclusive. *)
OpportunitiesExclusive(results) ==
    Len(SelectSeq(results, LAMBDA st : Has(st, "score") /\ st.score > OpportunityScore))

(* data.results.filter(s => s.score >= 75).length *)
Opportunities(results) ==
    Len(SelectSeq(results, LAMBDA st : Has(st, "score") /\ st.score >= OpportunityScore))

(* The template of one card; rvol.toFixed throws when rvol is no number. *)
CardThrows(stock) ==
    LET technicals == SubObject(SubObject(stock, "details"), "technicals")
    IN  /\ Has(technicals, "relative_volume")
        /\ Truthy(technicals.relative_volume)
        /\ ~IsNum(technicals.relative_volume)

Card(stock) ==
    LET details == SubObject(stock, "details")
        technicals == SubObject(details, "technicals")
        financials == SubObject(details, "financials")
        rvol == IF Has(technicals, "relative_volume") /\ Truthy(technicals.relative_volume)
                THEN technicals.relative_volume.num ELSE 100
        sector == IF Has(financials, "sector") /\ financials.sector # ""
                  THEN financials.sector ELSE "Market"
        finScore == IF Has(financials, "score") /\ Truthy(financials.score)
                    THEN financials.score.num ELSE 0
        trend == IF Has(technicals, "trend") /\ technicals.trend # ""
                 THEN technicals.trend ELSE "Posicionamiento Institucional"
    IN  [symbol |-> stock.symbol,
         score |-> ToString(stock.score),
         name |-> sector,
         finScore |-> ToString(finScore),
         finColor |-> IF finScore > SuccessFinScore THEN "var(--success)" ELSE "inherit",
         rvol |-> ToFixed(rvol, 2),
         reasoning |-> trend \o " detectado.",
         onclick |-> stock.symbol]

(* data.results.forEach: appends one card per entry until a template throws. *)
RECURSIVE AppendCards(_, _)
AppendCards(grid, results) ==
    IF results = <<>> THEN [grid |-> grid, threw |-> FALSE]
    ELSE IF CardThrows(Head(results)) THEN [grid |-> grid, threw |-> TRUE]
    ELSE AppendCards(Append(grid, Card(Head(results))), Tail(results))

ScanDom(grid, count) == [stocksGrid |-> grid, opportunityCount |-> count]

(* Mutant: the grid is not cleared. *)
ClearGridKeeps(dom) == dom

(* grid.innerHTML = "" *)
ClearGrid(dom) == [dom EXCEPT !.stocksGrid = <<>>]

fetchStocksCatch(dom) == Thrown(dom)

(* fetchStocks from a settlement to its end: a rejection (of fetch or of   *)
(* response.json()) goes to the catch block, a parsed body to the try      *)
(* block from line 39.                                                     *)
fetchStocksBody(dom, o) ==
    IF o.kind # "json" THEN fetchStocksCatch(dom)
    ELSE LET data == o.data
             cleared == ClearGrid(dom)
         IN
    IF ~Has(data, "results") THEN fetchStocksCatch(cleared)
    ELSE LET counted == [cleared EXCEPT
                            !.opportunityCount = ToString(Opportunities(data.results))]
             built == AppendCards(counted.stocksGrid, data.results)
         IN  [dom |-> [counted EXCEPT !.stocksGrid = built.grid], threw |-> built.threw]

(* A call of fetchStocks: builds the url and runs to the await of its fetch. *)
fetchStocksCall(minScore) ==
    /\ scanIssued' = scanIssued + 1
    /\ scanInFlight' = Append(scanInFlight,
            [id |-> scanIssued + 1, minScore |-> minScore, url |-> fetchStocksUrl(minScore)])
    /\ scanParsing' = scanParsing

(* #scoreFilter.onchange *)
filterChange ==
    /\ scanIssued < 1 + MaxFilterChanges
    /\ \E v \in FilterValues \ {scoreFilter} :
        /\ scoreFilter' = v
        /\ fetchStocksCall(v)
        /\ ev' = Event("filterChange", [id |-> scanIssued + 1], [kind |-> "none"], FALSE)
    /\ UNCHANGED <<statusVars, pollVars, scanRegion, modalRegion, modalVars>>

Remove(seq, i) == SubSeq(seq, 1, i - 1) \o SubSeq(seq, i + 1, Len(seq))

(* The fetch of one suspended fetchStocks settles (line 36): a rejection   *)
(* runs the catch block; a response calls response.json() and suspends     *)
(* again.                                                                  *)
scanFetchSettles ==
    /\ \E i \in 1..Len(scanInFlight), o \in FetchOutcomes :
        LET r == fetchStocksBody(ScanDom(stocksGrid, opportunityCount), o)
        IN  /\ scanInFlight' = Remove(scanInFlight, i)
            /\ IF o = Resolved
               THEN /\ scanParsing' = Append(scanParsing, scanInFlight[i])
                    /\ ev' = Event("scanFetchSettles", scanInFlight[i], o, FALSE)
                    /\ UNCHANGED scanRegion
               ELSE /\ scanParsing' = scanParsing
                    /\ stocksGrid' = r.dom.stocksGrid
                    /\ opportunityCount' = r.dom.opportunityCount
                    /\ ev' = Event("scanFetchSettles", scanInFlight[i], o, r.threw)
    /\ UNCHANGED <<statusVars, pollVars, scoreFilter, scanIssued, modalRegion, modalVars>>

(* Mutant: a response is rendered only if its request is the latest one. *)
scanResponseLatestOnly ==
    /\ \E i \in 1..Len(scanParsing), o \in ScanOutcomes :
        LET r == fetchStocksBody(ScanDom(stocksGrid, opportunityCount), o)
            latest == scanParsing[i].id = scanIssued
        IN  /\ stocksGrid' = IF latest THEN r.dom.stocksGrid ELSE stocksGrid
            /\ opportunityCount' = IF latest THEN r.dom.opportunityCount ELSE opportunityCount
            /\ scanParsing' = Remove(scanParsing, i)
            /\ ev' = Event("scanResponse", scanParsing[i], o, r.threw)
    /\ UNCHANGED <<statusVars, pollVars, scoreFilter, scanInFlight, scanIssued>>
    /\ UNCHANGED <<modalRegion, modalVars>>

(* Mutant: a scan that throws reports it in the modal. *)
scanResponseReportsInModal ==
    /\ \E i \in 1..Len(scanParsing), o \in ScanOutcomes :
        LET r == fetchStocksBody(ScanDom(stocksGrid, opportunityCount), o)
        IN  /\ stocksGrid' = r.dom.stocksGrid
            /\ opportunityCount' = r.dom.opportunityCount
            /\ scanParsing' = Remove(scanParsing, i)
            /\ ev' = Event("scanResponse", scanParsing[i], o, r.threw)
            /\ modalBody' = IF r.threw THEN [view |-> "error", html |-> "scan"] ELSE modalBody
            /\ modalDisplay' = IF r.threw THEN "block" ELSE modalDisplay
    /\ UNCHANGED <<statusVars, pollVars, scoreFilter, scanInFlight, scanIssued, modalVars>>

(* response.json() of one suspended fetchStocks settles (line 37) and the  *)
(* function runs to its end.                                               *)
scanResponse ==
    /\ \E i \in 1..Len(scanParsing), o \in ScanOutcomes :
        LET r == fetchStocksBody(ScanDom(stocksGrid, opportunityCount), o)
        IN  /\ stocksGrid' = r.dom.stocksGrid
            /\ opportunityCount' = r.dom.opportunityCount
            /\ scanParsing' = Remove(scanParsing, i)
            /\ ev' = Event("scanResponse", scanParsing[i], o, r.threw)
    /\ UNCHANGED <<statusVars, pollVars, scoreFilter, scanInFlight, scanIssued>>
    /\ UNCHANGED <<modalRegion, modalVars>>

----------------------------------------------------------------------------
(* Detail modal: showStockDetail and the two dismissal handlers. *)

Stocks == {Aapl, Tsla, Msft, Nvda, Amzn, Meta}
PassedFinancials == {"AAPL", "NVDA"}

(* The analysis the backend holds for a symbol: its summary plus           *)
(* passed_financials.                                                      *)
AnalysisOf(symbol) ==
    LET st == CHOOSE x \in Stocks : x.symbol = symbol
        flag == [passed_financials |-> symbol \in PassedFinancials]
    IN  [k \in DOMAIN st \cup {"passed_financials"} |->
            IF k = "passed_financials" THEN flag[k] ELSE st[k]]

AnalysisOutcomes(symbol) ==
    {InvalidJson, Json([detail |-> "Not Found"]), Json(AnalysisOf(symbol))}

LoadingBody == [view |-> "loading", html |-> "<p>Cargando análisis profundo...</p>"]
ErrorBody == [view |-> "error", html |-> "<p>Error al cargar los datos detallados.</p>"]
EmptyBody == [view |-> "empty", html |-> ""]

(* v?.toFixed(d) || fallback, for a field that is absent or a number. *)
FixedOr(o, k, d, fallback) == IF Has(o, k) THEN ToFixed(o[k].num, d) ELSE fallback

(* o[k] || fallback, for a field that is absent or a string. *)
TextOr(o, k, fallback) == IF Has(o, k) /\ o[k] # "" THEN o[k] ELSE fallback

(* The detail template throws when relative_volume, pe or debt_equity is   *)
(* present and has no toFixed.                                             *)
DetailThrows(data) ==
    LET details == SubObject(data, "details")
        technicals == SubObject(details, "technicals")
        financials == SubObject(details, "financials")
    IN  \/ Has(technicals, "relative_volume") /\ ~IsNum(technicals.relative_volume)
        \/ Has(financials, "pe") /\ ~IsNum(financials.pe)
        \/ Has(financials, "debt_equity") /\ ~IsNum(financials.debt_equity)

(* The detail layout, slot by slot. *)
Detail(data) ==
    LET details == SubObject(data, "details")
        technicals == SubObject(details, "technicals")
        financials == SubObject(details, "financials")
        institutional == SubObject(details, "institutional")
    IN  [view |-> "detail",
         symbol |-> IF Has(data, "symbol") THEN data.symbol ELSE "undefined",
         sector |-> TextOr(financials, "sector", "N/A"),
         score |-> IF Has(data, "score") THEN ToString(data.score) ELSE "undefined",
         outlook |-> TextOr(institutional, "outlook", "Análisis en proceso..."),
         rvol |-> FixedOr(technicals, "relative_volume", 2, "1.00"),
         trend |-> TextOr(technicals, "trend", "Neutral"),
         stability |-> TextOr(financials, "stability", "Media"),
         pe |-> FixedOr(financials, "pe", 1, "N/A"),
         debt_equity |-> FixedOr(financials, "debt_equity", 2, "N/A"),
         roe |-> (IF Has(financials, "roe") THEN ToFixed(financials.roe.num, 1)
                  ELSE NaNText) \o "%",
         market_cap |-> (IF Has(financials, "market_cap")
                         THEN ToFixed(financials.market_cap.num, 1)
                         ELSE NaNText) \o "B",
         banner |-> IF Has(data, "passed_financials") /\ data.passed_financials
                    THEN "PASSED FUNDAMENTAL CHECK" ELSE "RISKY FUNDAMENTALS"]

(* lucide.createIcons(), line 135: what one call does. *)
LucideOutcomes == {"returns", "throws"}

(* The catch block of showStockDetail: the error placeholder. *)
showStockDetailCatch == [body |-> ErrorBody, threw |-> TRUE]

(* The try block reaches line 135: the body was parsed and the template    *)
(* of lines 96-134 did not throw.                                          *)
ReachesIcons(o) == o.kind = "json" /\ ~DetailThrows(o.data)

(* showStockDetail from a settlement to its end: the body the modal is     *)
(* left with.  A rejection (of fetch or of response.json()), a template    *)
(* that throws and a createIcons() that throws all end in the catch block; *)
(* roe and market_cap, which the template multiplies and divides before    *)
(* toFixed, are numbers when present.                                      *)
showStockDetailBody(o, icons) ==
    IF ~ReachesIcons(o) \/ icons = "throws"
    THEN showStockDetailCatch
    ELSE [body |-> Detail(o.data), threw |-> FALSE]

(* The task of a settled response.json(): its request, its outcome, and    *)
(* what createIcons() did if line 135 was reached.                         *)
AnalysisEvent(req, o, threw, icons) ==
    [op |-> "analysisResponse", req |-> req, resp |-> o, threw |-> threw,
     icons |-> IF ReachesIcons(o) THEN icons ELSE "not called"]

(* What a click can land on, as window.onclick sees event.target: the      *)
(* modal itself (its backdrop), an element of the modal content, or an     *)
(* element of the page outside the modal.                                  *)
ClickTargets == {"stockModal", "modalBody", "document"}

(* Mutant: a click that no element of the page handles hides the modal. *)
windowOnclickUnhandled(display, target) ==
    IF target \in ClickTargets THEN "none" ELSE display

(* Mutant: a click on the modal or on anything in it hides the modal. *)
windowOnclickContains(display, target) ==
    IF target \in {"stockModal", "modalBody", "close-modal"} THEN "none" ELSE display

(* window.onclick: hides the modal when the target is the modal itself. *)
windowOnclick(display, target) == IF target = "stockModal" THEN "none" ELSE display

(* Mutant: a populated modal keeps its content until the response comes. *)
showStockDetailCallKeepsContent(symbol) ==
    /\ modalBody' = IF modalBody.view = "detail" THEN modalBody ELSE LoadingBody
    /\ modalDisplay' = windowOnclick("block", "stock-card")
    /\ analysisIssued' = analysisIssued + 1
    /\ analysisInFlight' = Append(analysisInFlight,
            [id |-> analysisIssued + 1, symbol |-> symbol])
    /\ analysisParsing' = analysisParsing

(* A call of showStockDetail: runs to the await of its fetch.  The click   *)
(* that made the call then reaches window.onclick with the card as target. *)
showStockDetailCall(symbol) ==
    /\ modalBody' = LoadingBody
    /\ modalDisplay' = windowOnclick("block", "stock-card")
    /\ analysisIssued' = analysisIssued + 1
    /\ analysisInFlight' = Append(analysisInFlight,
            [id |-> analysisIssued + 1, symbol |-> symbol])
    /\ analysisParsing' = analysisParsing

(* card.onclick of one card of the grid. *)
cardClick ==
    /\ analysisIssued < MaxOpens
    /\ \E i \in 1..Len(stocksGrid) :
        /\ showStockDetailCall(stocksGrid[i].onclick)
        /\ ev' = Event("cardClick",
                       [id |-> analysisIssued + 1, symbol |-> stocksGrid[i].onclick],
                       [kind |-> "none"], FALSE)
    /\ UNCHANGED <<statusVars, pollVars, scanRegion, scanVars>>

(* The fetch of one suspended showStockDetail settles (line 93): a        *)
(* rejection runs the catch block; a response calls response.json() and    *)
(* suspends again.                                                         *)
analysisFetchSettles ==
    /\ \E i \in 1..Len(analysisInFlight), o \in FetchOutcomes :
        LET r == showStockDetailCatch
        IN  /\ analysisInFlight' = Remove(analysisInFlight, i)
            /\ IF o = Resolved
               THEN /\ analysisParsing' = Append(analysisParsing, analysisInFlight[i])
                    /\ ev' = Event("analysisFetchSettles", analysisInFlight[i], o, FALSE)
                    /\ UNCHANGED modalBody
               ELSE /\ analysisParsing' = analysisParsing
                    /\ modalBody' = r.body
                    /\ ev' = Event("analysisFetchSettles", analysisInFlight[i], o, r.threw)
    /\ UNCHANGED <<statusVars, pollVars, scanRegion, scanVars, modalDisplay, analysisIssued>>

(* Mutant: the modal is shown when the response is written to it. *)
analysisResponseShowsModal ==
    /\ \E i \in 1..Len(analysisParsing) :
        \E o \in AnalysisOutcomes(analysisParsing[i].symbol), icons \in LucideOutcomes :
            LET r == showStockDetailBody(o, icons)
            IN  /\ modalBody' = r.body
                /\ modalDisplay' = "block"
                /\ analysisParsing' = Remove(analysisParsing, i)
                /\ ev' = AnalysisEvent(analysisParsing[i], o, r.threw, icons)
    /\ UNCHANGED <<statusVars, pollVars, scanRegion, scanVars, analysisInFlight, analysisIssued>>

(* Mutant: a response is applied only if its call is the latest one. *)
analysisResponseLatestOnly ==
    /\ \E i \in 1..Len(analysisParsing) :
        \E o \in AnalysisOutcomes(analysisParsing[i].symbol), icons \in LucideOutcomes :
            LET r == showStockDetailBody(o, icons)
            IN  /\ modalBody' = IF analysisParsing[i].id = analysisIssued
                                 THEN r.body ELSE modalBody
                /\ analysisParsing' = Remove(analysisParsing, i)
                /\ ev' = AnalysisEvent(analysisParsing[i], o, r.threw, icons)
    /\ UNCHANGED <<statusVars, pollVars, scanRegion, scanVars, modalDisplay>>
    /\ UNCHANGED <<analysisInFlight, analysisIssued>>

(* response.json() of one suspended showStockDetail settles (line 94) and  *)
(* the function runs to its end.                                           *)
analysisResponse ==
    /\ \E i \in 1..Len(analysisParsing) :
        \E o \in AnalysisOutcomes(analysisParsing[i].symbol), icons \in LucideOutcomes :
            LET r == showStockDetailBody(o, icons)
            IN  /\ modalBody' = r.body
                /\ analysisParsing' = Remove(analysisParsing, i)
                /\ ev' = AnalysisEvent(analysisParsing[i], o, r.threw, icons)
    /\ UNCHANGED <<statusVars, pollVars, scanRegion, scanVars, modalDisplay>>
    /\ UNCHANGED <<analysisInFlight, analysisIssued>>

(* .close-modal onclick, and window.onclick for the same click. *)
closeModalClick ==
    /\ modalDisplay' = windowOnclick("none", "close-modal")
    /\ ev' = Event("closeModalClick", [id |-> 0], [kind |-> "none"], FALSE)
    /\ UNCHANGED <<statusVars, pollVars, scanRegion, scanVars, modalBody, modalVars>>

(* window.onclick for a click that no other handler of the model serves. *)
windowClick ==
    /\ \E t \in ClickTargets :
        /\ modalDisplay' = windowOnclick(modalDisplay, t)
        /\ ev' = Event("windowClick", [id |-> 0, target |-> t], [kind |-> "none"], FALSE)
    /\ UNCHANGED <<statusVars, pollVars, scanRegion, scanVars, modalBody, modalVars>>

----------------------------------------------------------------------------
(* The page after the script has run to its end: fetchHome() and           *)
(* fetchStocks() are suspended at their fetch and the timer is armed.      *)

Init ==
    /\ totalIndexed = ""
    /\ workerState = ""
    /\ workerScanning = FALSE
    /\ scanProgressText = ""
    /\ statusInFlight = 1
    /\ statusParsing = 0
    /\ statusIssued = 1
    /\ ticks = 0
    /\ updateInFlight = 0
    /\ refreshClicks = 0
    /\ alerts = 0
    /\ stocksGrid = <<>>
    /\ opportunityCount = ""
    /\ scoreFilter = ToString(DefaultMinScore)
    /\ scanIssued = 1
    /\ scanInFlight = <<[id |-> 1, minScore |-> ToString(DefaultMinScore),
                         url |-> fetchStocksUrl(ToString(DefaultMinScore))]>>
    /\ scanParsing = <<>>
    /\ modalDisplay = ""
    /\ modalBody = EmptyBody
    /\ analysisInFlight = <<>>
    /\ analysisParsing = <<>>
    /\ analysisIssued = 0
    /\ ev = NoEvent

NextStatus ==
    \/ timerTick \/ statusFetchSettles \/ statusResponse
    \/ updateDbClick \/ updateDbResponse
NextScan == filterChange \/ scanFetchSettles \/ scanResponse
NextModal ==
    \/ scanFetchSettles \/ scanResponse
    \/ cardClick \/ analysisFetchSettles \/ analysisResponse
    \/ closeModalClick \/ windowClick
Next ==
    \/ timerTick \/ statusFetchSettles \/ statusResponse
    \/ updateDbClick \/ updateDbResponse
    \/ filterChange \/ scanFetchSettles \/ scanResponse
    \/ cardClick \/ analysisFetchSettles \/ analysisResponse
    \/ closeModalClick \/ windowClick

(* The timer ticks and the user actions that have called a handler with a  *)
(* request so far.                                                         *)
PageEvents == ticks + refreshClicks + (scanIssued - 1) + analysisIssued

(* The whole page, over a bounded number of ticks and request-issuing user *)
(* actions of any kind; settlements and dismissal clicks are not bounded.  *)
NextPage ==
    \/ PageEvents < MaxPageEvents /\ timerTick
    \/ PageEvents < MaxPageEvents /\ updateDbClick
    \/ PageEvents < MaxPageEvents /\ filterChange
    \/ PageEvents < MaxPageEvents /\ cardClick
    \/ statusFetchSettles \/ statusResponse \/ updateDbResponse
    \/ scanFetchSettles \/ scanResponse
    \/ analysisFetchSettles \/ analysisResponse
    \/ closeModalClick \/ windowClick

(* The status poller and the refresh button alone. *)
SpecStatus == Init /\ [][NextStatus]_vars
(* The scan renderer alone. *)
SpecScan == Init /\ [][NextScan]_vars
(* The detail modal, with the load-time scan that fills the grid. *)
SpecModal == Init /\ [][NextModal]_vars
(* The three components together, interleaved. *)
SpecPage == Init /\ [][NextPage]_vars
(* The whole page.  Its components share no variable but ev, so the claims *)
(* about one component are checked under that component's specification.   *)
Spec == Init /\ [][Next]_vars

----------------------------------------------------------------------------
(* Claims about the status poller, checked under SpecStatus. *)

(* The task e settled a call for good: its fetch rejected, or its          *)
(* response.json() settled and the function ran to its end.                *)
StatusSettled(e) ==
    \/ e.op = "statusResponse"
    \/ e.op = "statusFetchSettles" /\ e.resp = NetworkError
ScanSettled(e) ==
    \/ e.op = "scanResponse"
    \/ e.op = "scanFetchSettles" /\ e.resp = NetworkError
AnalysisSettled(e) ==
    \/ e.op = "analysisResponse"
    \/ e.op = "analysisFetchSettles" /\ e.resp = NetworkError

(* The task e rendered a detail view and createIcons() returned. *)
IconsReturned(e) == e.op = "analysisResponse" /\ e.icons = "returns"
IconsThrew(e) == e.op = "analysisResponse" /\ e.icons = "throws"

FetchFailed(e) == StatusSettled(e) /\ e.resp.kind \in {"network", "badjson"}

(* C1: a step in which a status fetch fails (the request does not complete *)
(* or the body is not JSON) leaves the four slots of the status region as  *)
(* they were.                                                              *)
C1_LastKnownGood == [][FetchFailed(ev') => UNCHANGED statusVars]_vars

(* A failed fetch has just settled on a region an earlier success filled. *)
C1_Witness ==
    /\ FetchFailed(ev)
    /\ totalIndexed = "12"
    /\ workerState = "SCANNING"
    /\ workerScanning
    /\ scanProgressText = "Stock Analysis in Progress..."

(* C2: one fetchHome is issued at load before any tick, every tick issues  *)
(* one more, and a tick is possible in every state, whatever has failed    *)
(* and whatever is still in flight (up to the model's MaxTicks).           *)
C2_Cadence ==
    /\ [](statusIssued >= 1 + ticks)
    /\ [](ticks < MaxTicks => ENABLED timerTick)
    /\ [][ticks' # ticks =>
            /\ ticks' = ticks + 1
            /\ statusIssued' = statusIssued + 1
            /\ statusInFlight' = statusInFlight + 1]_vars

(* A second tick has fired after an earlier fetch failed and while two     *)
(* earlier fetches are still in flight.                                    *)
C2_Witness ==
    /\ ev.op = "tick"
    /\ ticks = 2
    /\ statusInFlight = 3
    /\ statusIssued = 4
    /\ alerts = 1
    /\ totalIndexed = ""

----------------------------------------------------------------------------
(* Claims about the scan renderer, checked under SpecScan. *)

ScanFailed(e) ==
    /\ ScanSettled(e)
    /\ \/ e.resp.kind \in {"network", "badjson"}
       \/ e.resp.kind = "json" /\ ~Has(e.resp.data, "results")

(* The last task was a scan response that fetchStocks applied to the end. *)
ScanApplied(e) == e.op = "scanResponse" /\ ~e.threw

(* C4: a step in which a scan fetch fails (network failure, body not JSON, *)
(* or JSON without the results list) leaves the grid and the opportunity   *)
(* count as they were.                                                     *)
C4_ScanFailureKeepsUi == [][ScanFailed(ev') => UNCHANGED scanRegion]_vars

RoutedAsClaimed(r) ==
    IF r.minScore = "darwinex"
    THEN /\ r.url.path = "/api/scan-darwinex"
         /\ r.url.query.min_score = "0"
         /\ r.url.query.limit = "50"
    ELSE /\ r.url.path = "/api/scan"
         /\ r.url.query.min_score = r.minScore
         /\ r.url.query.limit = "50"

(* C6: every scan request goes to the darwinex endpoint with min_score 0   *)
(* and limit 50 exactly when its filter value is "darwinex", and otherwise *)
(* to the standard endpoint with min_score the filter value and limit 50;  *)
(* the load-time request carries min_score 0.                              *)
C6_Routing ==
    /\ \A i \in 1..Len(scanInFlight) :
        /\ RoutedAsClaimed(scanInFlight[i])
        /\ scanInFlight[i].id = 1 =>
            /\ scanInFlight[i].url.path = "/api/scan"
            /\ scanInFlight[i].url.query.min_score = "0"
    /\ \A i \in 1..Len(scanParsing) : RoutedAsClaimed(scanParsing[i])
    /\ ev.op \in {"scanFetchSettles", "scanResponse"} => RoutedAsClaimed(ev.req)

(* "darwinex" was selected after the numeric value 75 and both requests    *)
(* are in flight behind the load-time one.                                 *)
C6_Witness ==
    /\ Len(scanInFlight) = 3
    /\ scanInFlight[2].minScore = "75"
    /\ scanInFlight[3].minScore = "darwinex"
    /\ scanInFlight[3].url.path = "/api/scan-darwinex"
    /\ scoreFilter = "darwinex"

Scores(results) == [i \in 1..Len(results) |-> results[i].score]

(* C7: after a scan response is applied, the opportunity count is the      *)
(* number of entries of that response with score >= 75.                    *)
C7_OpportunityCount ==
    ScanApplied(ev) =>
        LET results == ev.resp.data.results
        IN  opportunityCount =
                ToString(Cardinality({i \in 1..Len(results) : results[i].score >= 75}))

(* The third scan, the earlier two having settled, brought scores          *)
(* 80, 74, 75, 90 and the count reads 3.                                   *)
C7_Witness ==
    /\ ScanApplied(ev)
    /\ ev.req.id = 3
    /\ scanInFlight = <<>>
    /\ scanParsing = <<>>
    /\ Scores(ev.resp.data.results) = <<80, 74, 75, 90>>
    /\ opportunityCount = "3"

(* C8: after a scan response is applied, the grid holds one card per entry *)
(* of that response, in response order, and nothing else.                  *)
C8_GridRebuild ==
    ScanApplied(ev) =>
        LET results == ev.resp.data.results
        IN  /\ Len(stocksGrid) = Len(results)
            /\ \A i \in 1..Len(results) :
                /\ stocksGrid[i].symbol = results[i].symbol
                /\ stocksGrid[i].score = ToString(results[i].score)
                /\ stocksGrid[i].onclick = results[i].symbol

(* After a filter change, a response in an order that is not by score      *)
(* replaced a grid: TSLA (74) before AAPL (80).                            *)
C8_Witness ==
    /\ ScanApplied(ev)
    /\ ev.req.id = 2
    /\ ev.req.minScore = "darwinex"
    /\ scanInFlight = <<>>
    /\ scanParsing = <<>>
    /\ Len(stocksGrid) = 2
    /\ stocksGrid[1].symbol = "TSLA"
    /\ stocksGrid[2].symbol = "AAPL"

----------------------------------------------------------------------------
(* Claims about the detail modal, checked under SpecModal. *)

(* The calls of showStockDetail suspended at either await. *)
InFlightSet ==
    {analysisInFlight[i] : i \in 1..Len(analysisInFlight)}
        \cup {analysisParsing[i] : i \in 1..Len(analysisParsing)}

(* The body the settlement e of a request is claimed to leave: the         *)
(* rendering of that request's symbol when the analysis was rendered and   *)
(* the icon library did its part, the error placeholder after a rejection  *)
(* or a createIcons() that threw.                                          *)
ShowsResultOf(body, e) ==
    IF IconsReturned(e) /\ e.resp = Json(AnalysisOf(e.req.symbol))
    THEN /\ body.view = "detail"
         /\ body.symbol = e.req.symbol
         /\ body.score = ToString(AnalysisOf(e.req.symbol).score)
    ELSE (e.resp.kind \in {"network", "badjson"} \/ IconsThrew(e)) => body = ErrorBody

(* C3: every response is applied to the modal body when it arrives,        *)
(* whatever else is in flight and in whatever order the calls were made    *)
(* (on a page whose icon library is loaded, the rendering of its symbol),  *)
(* and a request leaves the requests in flight only by its own response    *)
(* arriving (an open cancels nothing).                                     *)
C3_LastArrivalWins ==
    /\ [](AnalysisSettled(ev) => ShowsResultOf(modalBody, ev))
    /\ [][\A r \in InFlightSet :
            \/ r \in InFlightSet'
            \/ AnalysisSettled(ev') /\ ev'.req = r]_vars
    /\ [][ev'.op = "cardClick" => Len(analysisInFlight') = Len(analysisInFlight) + 1]_vars

(* AAPL was opened while TSLA was loading; AAPL's response has just        *)
(* arrived and the body shows AAPL while TSLA is still in flight.          *)
C3_Witness ==
    /\ ev.op = "analysisResponse"
    /\ ev.req = [id |-> 2, symbol |-> "AAPL"]
    /\ InFlightSet = {[id |-> 1, symbol |-> "TSLA"]}
    /\ modalBody.view = "detail"
    /\ modalBody.symbol = "AAPL"
    /\ modalDisplay = "block"

CloseStep ==
    \/ ev'.op = "closeModalClick"
    \/ ev'.op = "windowClick" /\ ev'.req.target = "stockModal"
OpenStep == ev'.op = "cardClick"
ArrivalStep == AnalysisSettled(ev')
FailedShown == modalBody = ErrorBody /\ modalDisplay = "block"

(* C5 as stated: once the error placeholder is shown, the modal stays      *)
(* visible with the error placeholder through every step that is neither   *)
(* a close nor a new open.                                                 *)
C5_FailedIsTerminal ==
    [][(FailedShown /\ ~CloseStep /\ ~OpenStep) => FailedShown']_vars

(* C5 as amended: once the error placeholder is shown, the modal stays     *)
(* visible through every step that is not a close, and keeps the error     *)
(* placeholder through every step that is neither a close, a new open nor  *)
(* the arrival of the response to another open still in flight.            *)
C5_FailedUntilCloseOpenOrArrival ==
    [][(FailedShown /\ ~CloseStep /\ ~OpenStep) =>
            /\ modalDisplay' = "block"
            /\ (modalBody' = ErrorBody \/ (ArrivalStep /\ InFlightSet # {}))]_vars

(* The error placeholder is still shown after a click inside the modal     *)
(* content, with nothing in flight.                                        *)
C5_Witness ==
    /\ FailedShown
    /\ ev.op = "windowClick"
    /\ ev.req.target = "modalBody"
    /\ InFlightSet = {}
    /\ analysisIssued = 2


(* The field k of the sub-object sub of data.details is absent. *)
Absent(data, sub, k) == ~Has(SubObject(SubObject(data, "details"), sub), k)

NumericFields ==
    {<<"technicals", "relative_volume">>, <<"financials", "score">>,
     <<"financials", "pe">>, <<"financials", "debt_equity">>,
     <<"financials", "roe">>, <<"financials", "market_cap">>}

(* Every numeric field of data.details is absent or a number. *)
OnlyAbsences(data) ==
    \A f \in NumericFields :
        Absent(data, f[1], f[2]) \/ IsNum(data.details[f[1]][f[2]])

(* C9: a summary or an analysis whose optional fields are absent or        *)
(* well-typed renders without failing, and each absent field renders as    *)
(* its documented fallback: relative_volume 1.00, sector "Market",         *)
(* financials.score 0, trend "Posicionamiento Institucional" (card) or     *)
(* "Neutral" (detail), outlook "Análisis en proceso...", stability         *)
(* "Media", and pe, debt_equity and market_cap "N/A".                      *)
C9_Fallbacks ==
    /\ (ev.op = "scanResponse" /\ ev.resp.kind = "json" /\ Has(ev.resp.data, "results")) =>
        LET results == ev.resp.data.results
        IN  (\A i \in 1..Len(results) : OnlyAbsences(results[i])) =>
                /\ ~ev.threw
                /\ Len(stocksGrid) = Len(results)
                /\ \A i \in 1..Len(results) :
                    /\ Absent(results[i], "technicals", "relative_volume") =>
                            stocksGrid[i].rvol = "1.00"
                    /\ Absent(results[i], "financials", "sector") =>
                            stocksGrid[i].name = "Market"
                    /\ Absent(results[i], "financials", "score") =>
                            stocksGrid[i].finScore = "0"
                    /\ Absent(results[i], "technicals", "trend") =>
                            stocksGrid[i].reasoning = "Posicionamiento Institucional detectado."
    /\ (IconsReturned(ev) /\ ev.resp = Json(AnalysisOf(ev.req.symbol))
            /\ OnlyAbsences(ev.resp.data)) =>
        LET data == ev.resp.data
        IN  /\ modalBody.view = "detail"
            /\ Absent(data, "technicals", "relative_volume") => modalBody.rvol = "1.00"
            /\ Absent(data, "technicals", "trend") => modalBody.trend = "Neutral"
            /\ Absent(data, "institutional", "outlook") =>
                    modalBody.outlook = "Análisis en proceso..."
            /\ Absent(data, "financials", "stability") => modalBody.stability = "Media"
            /\ Absent(data, "financials", "sector") => modalBody.sector = "Market"
            /\ Absent(data, "financials", "pe") => modalBody.pe = "N/A"
            /\ Absent(data, "financials", "debt_equity") => modalBody.debt_equity = "N/A"
            /\ Absent(data, "financials", "market_cap") => modalBody.market_cap = "N/A"

(* C10: in the detail view a present ROE renders as value x 100 followed   *)
(* by "%", a present ROE of 0 as "0%" and never "N/A", and an absent ROE   *)
(* as "0%".                                                                *)
C10_RoeRendering ==
    (ev.op = "analysisResponse" /\ ev.resp.kind = "json" /\ modalBody.view = "detail") =>
        LET data == ev.resp.data
            financials == SubObject(SubObject(data, "details"), "financials")
        IN  /\ Absent(data, "financials", "roe") => modalBody.roe = "0%"
            /\ ~Absent(data, "financials", "roe") =>
                /\ modalBody.roe # "N/A"
                /\ financials.roe.num = 0 => modalBody.roe = "0%"
                /\ financials.roe.num # 0 =>
                        modalBody.roe = ToFixed(financials.roe.num, 1) \o "%"


----------------------------------------------------------------------------
(* Claims about the dismissal handlers, checked under SpecModal. *)

(* The step is a click whose target is the backdrop or the close control   *)
(* (CloseStep), an element of the modal content, or an element outside     *)
(* the modal: a card, or any other element of the page.                    *)
ClickInsideContent == ev'.op = "windowClick" /\ ev'.req.target = "modalBody"
ClickOutsideModal ==
    \/ ev'.op = "windowClick" /\ ev'.req.target = "document"
    \/ ev'.op = "cardClick"

(* C11 as stated: a click on the backdrop itself or on the close control   *)
(* hides the modal; a click on any element of the modal content or on any  *)
(* element outside the modal leaves the modal's display as it was.         *)
C11_OnlyBackdropAndCloseChangeDisplay ==
    /\ [][CloseStep => modalDisplay' = "none"]_vars
    /\ [][(ClickInsideContent \/ ClickOutsideModal) => modalDisplay' = modalDisplay]_vars

(* C11 as amended: a click on the backdrop itself or on the close control  *)
(* hides the modal; a click on an element of the modal content, or on an   *)
(* element outside the modal other than a result card, leaves the modal's  *)
(* display as it was; a click on a result card shows the modal.            *)
C11_Dismissal ==
    /\ [][CloseStep => modalDisplay' = "none"]_vars
    /\ [][(ev'.op = "windowClick" /\ ev'.req.target # "stockModal") =>
            modalDisplay' = modalDisplay]_vars
    /\ [][ev'.op = "cardClick" => modalDisplay' = "block"]_vars

(* A click inside the content of a populated, visible modal has left it    *)
(* visible.                                                                *)
C11_Witness ==
    /\ ev.op = "windowClick"
    /\ ev.req.target = "modalBody"
    /\ modalDisplay = "block"
    /\ modalBody.view = "detail"


----------------------------------------------------------------------------
(* Claims about the three components together, checked under SpecPage. *)

PollStep == ev'.op \in {"tick", "statusFetchSettles", "statusResponse"}
ScanStep == ev'.op \in {"filterChange", "scanFetchSettles", "scanResponse"}
ModalOpenStep == ev'.op \in {"cardClick", "analysisFetchSettles", "analysisResponse"}

(* C12: a step of a poll tick writes only the status region, a step of a   *)
(* scan render only the grid and the opportunity count, a step of a modal  *)
(* open only the modal, whether the step throws or not; and whatever has   *)
(* failed, every request in flight can still settle, the timer can still   *)
(* tick and every card in the grid can still be clicked (within the        *)
(* model's bounds).                                                        *)
C12_Isolation ==
    /\ [][PollStep => UNCHANGED <<scanRegion, modalRegion>>]_vars
    /\ [][ScanStep => UNCHANGED <<statusVars, modalRegion>>]_vars
    /\ [][ModalOpenStep => UNCHANGED <<statusVars, scanRegion>>]_vars
    /\ [](statusInFlight > 0 => ENABLED statusFetchSettles)
    /\ [](statusParsing > 0 => ENABLED statusResponse)
    /\ [](scanInFlight # <<>> => ENABLED scanFetchSettles)
    /\ [](scanParsing # <<>> => ENABLED scanResponse)
    /\ [](analysisInFlight # <<>> => ENABLED analysisFetchSettles)
    /\ [](analysisParsing # <<>> => ENABLED analysisResponse)
    /\ [](ticks < MaxTicks => ENABLED timerTick)
    /\ []((stocksGrid # <<>> /\ analysisIssued < MaxOpens) => ENABLED cardClick)

(* The load-time status fetch failed and a scan threw part-way (AMZN's     *)
(* card); the grid still got AAPL's card, the card was clicked and the     *)
(* modal shows AAPL's analysis, while the status region is as at load.     *)
C12_Witness ==
    /\ ev.op = "analysisResponse"
    /\ ~ev.threw
    /\ modalBody.view = "detail"
    /\ modalBody.symbol = "AAPL"
    /\ Len(stocksGrid) = 1
    /\ statusInFlight = 0
    /\ statusParsing = 0
    /\ statusIssued = 1
    /\ totalIndexed = ""
    /\ workerState = ""

----------------------------------------------------------------------------
(* Claims about the status region, checked under SpecStatus. *)

StatusApplied == ev.op = "statusResponse" /\ ~ev.threw

(* C13: in the state a status response leaves when fetchHome ran to the    *)
(* end of its try block, the worker-state label reads "SCANNING" and has   *)
(* the 'scanning' marker exactly when the response has is_running true;    *)
(* otherwise it reads "IDLE", has no marker, and the progress text is the  *)
(* label "Last run: " followed by the response's last_run, character for   *)
(* character.  The state before the response plays no part.                *)
C13_ScanningMarker ==
    StatusApplied =>
        LET worker == ev.resp.data.worker IN
        IF worker.is_running
        THEN workerState = "SCANNING" /\ workerScanning
        ELSE /\ workerState = "IDLE"
             /\ ~workerScanning
             /\ scanProgressText = "Last run: " \o worker.last_run

(* All three status requests of a run have settled, and the last to settle *)
(* was an Idle response with a GMT last_run, applied in full.              *)
C13_Witness ==
    /\ StatusApplied
    /\ ev.resp.data = StatusIdleGmt
    /\ statusIssued = 3
    /\ statusInFlight = 0
    /\ statusParsing = 0
    /\ workerState = "IDLE"
    /\ ~workerScanning
    /\ scanProgressText = "Last run: Mon, 05 Jan 2026 10:00:00 GMT"

----------------------------------------------------------------------------
(* Claims about the modal, checked under SpecModal. *)

(* C14: whatever the modal shows and whether it is visible or not, a call  *)
(* of showStockDetail(symbol) leaves it visible with the loading           *)
(* placeholder as its whole content, and adds exactly one request, for     *)
(* that symbol, to the requests in flight, none of which it removes.       *)
C14_OpenShowsLoading ==
    [][OpenStep =>
        /\ modalDisplay' = "block"
        /\ modalBody' = LoadingBody
        /\ analysisIssued' = analysisIssued + 1
        /\ analysisInFlight' = Append(analysisInFlight,
                [id |-> analysisIssued + 1, symbol |-> ev'.req.symbol])
        /\ analysisParsing' = analysisParsing]_vars

(* A second card was clicked while the first open was still loading: the   *)
(* loading placeholder is shown and both requests are in flight.           *)
C14_Witness ==
    /\ ev.op = "cardClick"
    /\ modalDisplay = "block"
    /\ modalBody = LoadingBody
    /\ analysisIssued = 2
    /\ Len(analysisInFlight) = 2
    /\ analysisInFlight[2].symbol = ev.req.symbol

----------------------------------------------------------------------------
(* Further claims about the scan renderer, checked under SpecScan. *)

(* The grid and the count are the rendering of the list results alone. *)
RenderedFrom(grid, count, results) ==
    /\ Len(grid) = Len(results)
    /\ \A i \in 1..Len(results) : grid[i].symbol = results[i].symbol
    /\ count = ToString(Cardinality({i \in 1..Len(results) : results[i].score >= 75}))

(* C15: a filter change adds its request to those in flight and removes    *)
(* none; any call suspended at either await can be the next to settle,     *)
(* whatever its position; a response that fetchStocks applies to the end leaves the     *)
(* grid and the count rendered from that response alone, whichever request *)
(* it answers; so when nothing is in flight any more, grid and count are   *)
(* those of the response that arrived last.                                *)
C15_ArrivalOrder ==
    /\ [][ev'.op = "filterChange" =>
            /\ Len(scanInFlight') = Len(scanInFlight) + 1
            /\ SubSeq(scanInFlight', 1, Len(scanInFlight)) = scanInFlight
            /\ scanParsing' = scanParsing]_vars
    /\ [](\A i \in 1..Len(scanInFlight) :
            ENABLED (scanFetchSettles /\ scanInFlight' = Remove(scanInFlight, i)))
    /\ [](\A i \in 1..Len(scanParsing) :
            ENABLED (scanResponse /\ scanParsing' = Remove(scanParsing, i)))
    /\ [][ScanApplied(ev') =>
            RenderedFrom(stocksGrid', opportunityCount', ev'.resp.data.results)]_vars
    /\ []((ScanApplied(ev) /\ scanInFlight = <<>> /\ scanParsing = <<>>) =>
            RenderedFrom(stocksGrid, opportunityCount, ev.resp.data.results))

(* Three requests were in flight together; the one for "75" settled last,  *)
(* after the one for "darwinex" that was issued after it, and the grid and *)
(* the count are its response's while the control reads "darwinex".        *)
C15_Witness ==
    /\ ScanApplied(ev)
    /\ scanInFlight = <<>>
    /\ scanParsing = <<>>
    /\ scanIssued = 3
    /\ ev.req.id = 2
    /\ ev.req.minScore = "75"
    /\ scoreFilter = "darwinex"
    /\ Len(stocksGrid) = 4
    /\ opportunityCount = "3"

----------------------------------------------------------------------------
(* Further claims about the three components together, under SpecPage. *)

issued == <<scanIssued, analysisIssued, statusIssued>>

(* The step settles a request with a failure: a fetch that rejects, or a   *)
(* handler that throws on the response.                                    *)
FailureStep ==
    /\ \/ StatusSettled(ev') \/ ScanSettled(ev') \/ AnalysisSettled(ev')
       \/ ev'.op = "updateDbResponse"
    /\ ev'.threw \/ ev'.resp.kind \in {"network", "badjson"}

(* C16: the scan requests issued grow by one in every filter-change step   *)
(* and in no other step, starting from the one of page load; the analysis  *)
(* requests grow by one in every card click and in no other step, starting *)
(* from none; the status requests grow by one in every timer tick and in   *)
(* every step in which the POST of the refresh button resolves, and in no  *)
(* other step, starting from the one of page load, so that they number one *)
(* plus the ticks plus the resolved POSTs; a step that settles a request   *)
(* with a failure issues nothing.                                          *)
C16_NoRetry ==
    /\ scanIssued = 1 /\ analysisIssued = 0 /\ statusIssued = 1
    /\ [][scanIssued' = IF ev'.op = "filterChange"
                        THEN scanIssued + 1 ELSE scanIssued]_vars
    /\ [][analysisIssued' = IF ev'.op = "cardClick"
                            THEN analysisIssued + 1 ELSE analysisIssued]_vars
    /\ [][statusIssued' =
            IF \/ ev'.op = "tick"
               \/ ev'.op = "updateDbResponse" /\ ev'.resp.kind # "network"
            THEN statusIssued + 1 ELSE statusIssued]_vars
    /\ [](statusIssued = 1 + ticks + alerts)
    /\ [](Len(scanInFlight) + Len(scanParsing) <= scanIssued)
    /\ [](Len(analysisInFlight) + Len(analysisParsing) <= analysisIssued)
    /\ [](statusInFlight + statusParsing <= statusIssued)
    /\ [][FailureStep =>
            /\ UNCHANGED issued
            /\ Len(scanInFlight') + Len(scanParsing') <= Len(scanInFlight) + Len(scanParsing)
            /\ Len(analysisInFlight') + Len(analysisParsing')
                    <= Len(analysisInFlight) + Len(analysisParsing)
            /\ statusInFlight' + statusParsing' <= statusInFlight + statusParsing]_vars

(* The status call and the scan of page load and the analysis of a card    *)
(* click have each ended in the catch block (the scan part-way, after      *)
(* AAPL's card), and the requests issued are still those of page load and  *)
(* of the one card click.                                                  *)
C16_Witness ==
    /\ ev.op = "analysisFetchSettles"
    /\ ev.resp = NetworkError
    /\ modalBody = ErrorBody
    /\ analysisIssued = 1
    /\ InFlightSet = {}
    /\ scanIssued = 1
    /\ scanInFlight = <<>>
    /\ scanParsing = <<>>
    /\ Len(stocksGrid) = 1
    /\ opportunityCount = "2"
    /\ ticks = 0
    /\ statusIssued = 1
    /\ statusInFlight = 0
    /\ statusParsing = 0
    /\ totalIndexed = ""

----------------------------------------------------------------------------
(* Further claims about the status region, checked under SpecStatus. *)

PostSettles == ev'.op = "updateDbResponse"

(* C17: a click on the refresh button issues exactly one POST; the         *)
(* confirmation is shown and the follow-up status fetch is issued only in  *)
(* the step in which that POST is answered with a 2xx status, both in that *)
(* step; when the POST fails (rejected, or answered with another status)   *)
(* the handler ends with the failure unhandled and neither happens.        *)
C17_RefreshOrdering ==
    /\ [][ev'.op = "updateDbClick" =>
            updateInFlight' = updateInFlight + 1 /\ UNCHANGED <<alerts, statusIssued>>]_vars
    /\ [][(PostSettles /\ ev'.resp.kind = "http2xx") =>
            /\ alerts' = alerts + 1
            /\ statusIssued' = statusIssued + 1
            /\ updateInFlight' = updateInFlight - 1]_vars
    /\ [][(PostSettles /\ ev'.resp.kind # "http2xx") =>
            /\ ev'.threw
            /\ UNCHANGED <<alerts, statusIssued, statusInFlight>>]_vars
    /\ [][alerts' # alerts => PostSettles /\ ev'.resp.kind = "http2xx"]_vars

----------------------------------------------------------------------------
(* Further claims about the modal, checked under SpecModal. *)

(* C18: the modal goes from not visible to visible only in a call of       *)
(* showStockDetail, and from visible to not visible only in a click on the *)
(* close control or on the backdrop; the arrival of an analysis response,  *)
(* applied or failed, leaves the body as the rendering or the error        *)
(* placeholder and the visibility as it was, so a modal closed while its   *)
(* fetch was in flight is still closed after the response.                 *)
C18_VisibilityByUserOnly ==
    /\ [][(modalDisplay # "block" /\ modalDisplay' = "block") => OpenStep]_vars
    /\ [][(modalDisplay = "block" /\ modalDisplay' # "block") => CloseStep]_vars
    /\ [][ArrivalStep =>
            /\ modalDisplay' = modalDisplay
            /\ modalBody'.view \in {"detail", "error"}]_vars
    /\ [][(ev'.op = "analysisFetchSettles" /\ ev'.resp = Resolved) =>
            UNCHANGED modalRegion]_vars

(* The modal was closed with a fetch in flight; the response has arrived   *)
(* and was rendered into the body, and the modal is still closed.          *)
C18_Witness ==
    /\ ev.op = "analysisResponse"
    /\ ~ev.threw
    /\ modalBody.view = "detail"
    /\ modalDisplay = "none"
    /\ analysisIssued = 1
    /\ InFlightSet = {}

----------------------------------------------------------------------------
(* Further claims about the scan renderer, checked under SpecScan. *)

(* The score texts a card shows for a score >= 75 (scores go up to 100). *)
OpportunityTexts == {ToString(n) : n \in OpportunityScore..100}

(* The count label is the number of cards in the grid with score >= 75. *)
CountMatchesGrid ==
    opportunityCount =
        ToString(Cardinality({i \in 1..Len(stocksGrid) :
                                stocksGrid[i].score \in OpportunityTexts}))

(* C19: every scan response, applied or failed, leaves the count label     *)
(* equal to the number of cards in the grid with score >= 75: always when  *)
(* fetchStocks ran to the end, and whenever the two agreed before when it  *)
(* did not.                                                                *)
C19_GridCountConsistent ==
    [][(ScanSettled(ev') /\ (CountMatchesGrid \/ ~ev'.threw))
            => CountMatchesGrid']_vars

----------------------------------------------------------------------------
(* A further claim about the status region, checked under SpecStatus. *)

(* C20: a status response either is applied in full, fetchHome running to  *)
(* the end of its try block, or leaves all four slots of the status region *)
(* as they were, so that the four slots never mix two responses.           *)
C20_AllOrNothing ==
    [][StatusSettled(ev') => (~ev'.threw \/ UNCHANGED statusVars)]_vars

====
